---- MODULE Spec2Model ----
(***************************************************************************)
(* Process-algebra verifier (yshaaban/pa): process terms, the SOS rule     *)
(* engine with its CCS / CSP / ACP rule sets, and the equivalence          *)
(* checkers.                                                               *)
(*                                                                         *)
(* Strings of the program are TLA+ strings; a JavaScript Set<Transition>   *)
(* holds freshly allocated objects and is compared by identity, so it is   *)
(* modelled as the sequence of its members in insertion order.             *)
(* A call that exhausts the JavaScript call stack throws RangeError; every *)
(* function that can do so returns a record [overflow, ts].                *)
(***************************************************************************)
EXTENDS Integers, Sequences, FiniteSets, TLC

VARIABLES op, rules, model, term, result, t1, t2, verdict, partition, termCache,
          builtLts, relation

vars == <<op, rules, model, term, result, t1, t2, verdict, partition, termCache,
          builtLts, relation>>

sosVars == <<rules, model, term, result>>
eqVars == <<t1, t2, verdict, partition, termCache>>
ltsVars == <<builtLts, relation>>

(***************************************************************************)
(* Bounds of the model                                                     *)
(***************************************************************************)
\* frames a derive() call chain may use before the run-time throws RangeError
StackLimit == 6
\* rules added by hand to one engine
MaxRules == 2
\* transitions held by one MockSOSRule
MaxMockTransitions == 2

(***************************************************************************)
(* Generic helpers over sequences                                          *)
(***************************************************************************)
Range(s) == {s[i] : i \in 1..Len(s)}

RECURSIVE SeqsUpTo(_, _)
SeqsUpTo(S, n) ==
    IF n = 0 THEN {<<>>}
    ELSE LET shorter == SeqsUpTo(S, n - 1)
         IN  shorter \cup {Append(s, x) : s \in shorter, x \in S}

\* the distinct members of an array, in the order a Set keeps them
RECURSIVE Distinct(_)
Distinct(xs) ==
    IF xs = <<>> THEN <<>>
    ELSE LET front == Distinct(SubSeq(xs, 1, Len(xs) - 1))
             x == xs[Len(xs)]
         IN  IF x \in Range(front) THEN front ELSE Append(front, x)

\* Array.prototype.map(t => t.action)
Actions(ts) == [i \in 1..Len(ts) |-> ts[i].action]

(***************************************************************************)
(* core/lts.ts : Transition                                                *)
(***************************************************************************)
Transition(s, a, t) == [source |-> s, action |-> a, target |-> t]

\* a Transition object a caller builds and hands on: ref is its identity,
\* so that one object handed twice differs from two objects of equal fields
TransitionObject(ref, s, a, t) ==
    [ref |-> ref, source |-> s, action |-> a, target |-> t]

(***************************************************************************)
(* core/terms : the process terms (+ the MockProcessTerm of the tests,     *)
(* which is the only variable-like leaf the repository has)                *)
(***************************************************************************)
StopTerm == [type |-> "Stop"]
MockProcessTerm(id) == [type |-> "Mock", id |-> id]
PrefixTerm(a, P) == [type |-> "Prefix", action |-> a, continuation |-> P]
ChoiceTerm(L, R) == [type |-> "Choice", left |-> L, right |-> R]
ParallelTerm(L, R) == [type |-> "Parallel", left |-> L, right |-> R]
RecursiveTerm(v, D) == [type |-> "Recursive", variable |-> v, definition |-> D]

\* substitute with the test on the bound variable left out: a RecursiveTerm
\* always substitutes in its definition
RECURSIVE SubstituteUnderBinder(_, _, _)
SubstituteUnderBinder(T, v, R) ==
    CASE T.type = "Stop" -> T
      [] T.type = "Mock" -> IF T.id = v THEN R ELSE T
      [] T.type = "Prefix" ->
            PrefixTerm(T.action, SubstituteUnderBinder(T.continuation, v, R))
      [] T.type = "Choice" ->
            ChoiceTerm(SubstituteUnderBinder(T.left, v, R),
                       SubstituteUnderBinder(T.right, v, R))
      [] T.type = "Parallel" ->
            ParallelTerm(SubstituteUnderBinder(T.left, v, R),
                         SubstituteUnderBinder(T.right, v, R))
      [] T.type = "Recursive" ->
            RecursiveTerm(T.variable, SubstituteUnderBinder(T.definition, v, R))

\* substitute(variable, replacement) of every term class
RECURSIVE Substitute(_, _, _)
Substitute(T, v, R) ==
    CASE T.type = "Stop" -> T
      [] T.type = "Mock" -> IF T.id = v THEN R ELSE T
      [] T.type = "Prefix" ->
            PrefixTerm(T.action, Substitute(T.continuation, v, R))
      [] T.type = "Choice" ->
            ChoiceTerm(Substitute(T.left, v, R), Substitute(T.right, v, R))
      [] T.type = "Parallel" ->
            ParallelTerm(Substitute(T.left, v, R), Substitute(T.right, v, R))
      [] T.type = "Recursive" ->
            IF v = T.variable THEN R
            ELSE RecursiveTerm(T.variable, Substitute(T.definition, v, R))

\* RecursiveTerm.unfold
Unfold(T) == Substitute(T.definition, T.variable, T)

\* toString of every term class
RECURSIVE toString(_)
toString(T) ==
    CASE T.type = "Stop" -> "STOP"
      [] T.type = "Mock" -> "MockProcessTerm(" \o T.id \o ")"
      [] T.type = "Prefix" -> T.action \o "." \o toString(T.continuation)
      [] T.type = "Choice" ->
            "(" \o toString(T.left) \o " + " \o toString(T.right) \o ")"
      [] T.type = "Parallel" ->
            "(" \o toString(T.left) \o " | " \o toString(T.right) \o ")"
      [] T.type = "Recursive" ->
            "rec " \o T.variable \o "." \o toString(T.definition)

\* outcome of a call that returns a set of transitions or throws RangeError
Ok(ts) == [overflow |-> FALSE, ts |-> ts]
Thrown == [overflow |-> TRUE, ts |-> <<>>]

\* derive with a ChoiceTerm keeping equal transitions of its two branches
\* once, as a set of values would
RECURSIVE DeriveDByValue(_, _)
DeriveDByValue(T, d) ==
    IF d = 0 THEN Thrown
    ELSE CASE T.type \in {"Stop", "Mock", "Parallel"} -> Ok(<<>>)
           [] T.type = "Prefix" ->
                 Ok(<<Transition("initial", T.action, "next")>>)
           [] T.type = "Choice" ->
                 LET l == DeriveDByValue(T.left, d - 1)
                 IN  IF l.overflow THEN Thrown
                     ELSE LET r == DeriveDByValue(T.right, d - 1)
                          IN  IF r.overflow THEN Thrown
                              ELSE Ok(l.ts \o SelectSeq(r.ts,
                                        LAMBDA t : \A i \in 1..Len(l.ts) :
                                                      l.ts[i] # t))
           [] T.type = "Recursive" ->
                 DeriveDByValue(Unfold(T), d - 1)

\* derive() of every term class, with d call-stack frames left
RECURSIVE DeriveD(_, _)
DeriveD(T, d) ==
    IF d = 0 THEN Thrown
    ELSE CASE T.type \in {"Stop", "Mock", "Parallel"} -> Ok(<<>>)
           [] T.type = "Prefix" ->
                 Ok(<<Transition("initial", T.action, "next")>>)
           [] T.type = "Choice" ->
                 LET l == DeriveD(T.left, d - 1)
                 IN  IF l.overflow THEN Thrown
                     ELSE LET r == DeriveD(T.right, d - 1)
                          IN  IF r.overflow THEN Thrown
                              ELSE Ok(l.ts \o r.ts)
           [] T.type = "Recursive" -> DeriveD(Unfold(T), d - 1)

Derive(T) == DeriveD(T, StackLimit)

(***************************************************************************)
(* semantics/sos-engine.ts : the rules.  A rule object is a record; cls is *)
(* its class, and a MockSOSRule (tests) carries the constructor arguments. *)
(***************************************************************************)
Rule(cls) == [cls |-> cls, shouldApply |-> FALSE, transitions |-> <<>>]
MockSOSRule(shouldApply, transitions) ==
    [cls |-> "MockSOSRule", shouldApply |-> shouldApply,
     transitions |-> transitions]

\* ParallelCompositionRule.hasNestedChoice
hasNestedChoice(T) ==
    IF T.type = "Prefix" THEN T.continuation.type = "Choice" ELSE FALSE

\* ParallelCompositionRule.deriveNestedTransitions
deriveNestedTransitions(T, isLeftBranch) ==
    IF T.type = "Prefix" /\ T.continuation.type = "Choice"
    THEN LET first == <<Transition("initial", T.action, "prefix-action")>>
         IN  IF isLeftBranch
             THEN LET l == Derive(T.continuation.left)
                  IN  IF l.overflow THEN Thrown
                      ELSE LET r == Derive(T.continuation.right)
                           IN  IF r.overflow THEN Thrown
                               ELSE Ok(first
                                       \o (IF Len(l.ts) > 0
                                           THEN <<l.ts[1]>> ELSE <<>>)
                                       \o (IF Len(r.ts) > 0
                                           THEN <<r.ts[1]>> ELSE <<>>))
             ELSE Ok(first)
    ELSE Derive(T)

\* interleaving as the parallel rules of the three models build it:
\* one transition per child transition, relabelled with the rule's targets
Relabel(ts, target) ==
    [i \in 1..Len(ts) |-> Transition("initial", ts[i].action, target)]

\* ParallelCompositionRule.deriveTransitions
ParallelCompositionRuleDerive(T) ==
    IF T.type # "Parallel" THEN Ok(<<>>)
    ELSE
    LET l == deriveNestedTransitions(T.left, TRUE)
    IN  IF l.overflow THEN Thrown
        ELSE LET r == deriveNestedTransitions(T.right, FALSE)
             IN  IF r.overflow THEN Thrown
                 ELSE Ok(Relabel(l.ts, "left-action")
                         \o (IF ~hasNestedChoice(T.left)
                             THEN Relabel(r.ts, "right-action")
                             ELSE <<>>))

\* ChoiceRule / CSPExternalChoiceRule .deriveTransitions
ChoiceRuleDerive(T) ==
    IF T.type # "Choice" THEN Ok(<<>>)
    ELSE
    LET l == Derive(T.left)
    IN  IF l.overflow THEN Thrown
        ELSE LET r == Derive(T.right)
             IN  IF r.overflow THEN Thrown ELSE Ok(l.ts \o r.ts)

\* CSPParallelRule.deriveTransitions
CSPParallelRuleDerive(T) ==
    IF T.type # "Parallel" THEN Ok(<<>>)
    ELSE
    LET l == Derive(T.left)
    IN  IF l.overflow THEN Thrown
        ELSE LET r == Derive(T.right)
             IN  IF r.overflow THEN Thrown
                 ELSE Ok(Relabel(l.ts, "left-action")
                         \o Relabel(r.ts, "right-action"))

\* CSPSynchronizationRule.canSynchronize
canSynchronize(action1, action2) == action1 = action2

\* CSPSynchronizationRule.synchronizedAction
synchronizedAction(action1, action2) == "tau"

\* the pairs (i, j) of a nested forEach, in iteration order
RECURSIVE PairsFrom(_, _, _, _)
PairsFrom(i, j, n, m) ==
    IF i > n \/ m = 0 THEN <<>>
    ELSE IF j > m THEN PairsFrom(i + 1, 1, n, m)
    ELSE <<<<i, j>>>> \o PairsFrom(i, j + 1, n, m)

RECURSIVE SyncOver(_, _, _)
SyncOver(pairs, lts, rts) ==
    IF pairs = <<>> THEN <<>>
    ELSE LET la == lts[Head(pairs)[1]].action
             ra == rts[Head(pairs)[2]].action
         IN  (IF canSynchronize(la, ra)
              THEN <<Transition("initial", synchronizedAction(la, ra),
                                "synchronized-action")>>
              ELSE <<>>)
             \o SyncOver(Tail(pairs), lts, rts)

\* CSPSynchronizationRule.deriveTransitions
CSPSynchronizationRuleDerive(T) ==
    IF T.type # "Parallel" THEN Ok(<<>>)
    ELSE
    LET l == Derive(T.left)
    IN  IF l.overflow THEN Thrown
        ELSE LET r == Derive(T.right)
             IN  IF r.overflow THEN Thrown
                 ELSE Ok(SyncOver(PairsFrom(1, 1, Len(l.ts), Len(r.ts)),
                                  l.ts, r.ts))

\* ACPChoiceMergeRule.shouldAddRightTransition
shouldAddRightTransition(leftTransitions, rightTrans) == TRUE

\* ACPChoiceMergeRule.deriveTransitions
ACPChoiceMergeRuleDerive(T) ==
    IF T.type # "Choice" THEN Ok(<<>>)
    ELSE
    LET l == Derive(T.left)
    IN  IF l.overflow THEN Thrown
        ELSE LET r == Derive(T.right)
             IN  IF r.overflow THEN Thrown
                 ELSE Ok(Relabel(l.ts, "left-merge")
                         \o Relabel(SelectSeq(r.ts,
                                LAMBDA t : shouldAddRightTransition(l.ts, t)),
                              "right-merge"))

\* ACPParallelCommunicationRule.communicationMerge; "null" is JavaScript null
communicationMerge(action1, action2) ==
    IF action1 = action2 THEN action1 \o "-merged" ELSE "null"

RECURSIVE MergeOver(_, _, _)
MergeOver(pairs, lts, rts) ==
    IF pairs = <<>> THEN <<>>
    ELSE LET la == lts[Head(pairs)[1]].action
             ra == rts[Head(pairs)[2]].action
             communicationAction == communicationMerge(la, ra)
         IN  (IF communicationAction # "null"
              THEN <<Transition("initial", communicationAction,
                                "communication-merge")>>
              ELSE <<>>)
             \o MergeOver(Tail(pairs), lts, rts)

\* ACPParallelCommunicationRule.deriveTransitions
ACPParallelCommunicationRuleDerive(T) ==
    IF T.type # "Parallel" THEN Ok(<<>>)
    ELSE
    LET l == Derive(T.left)
    IN  IF l.overflow THEN Thrown
        ELSE LET r == Derive(T.right)
             IN  IF r.overflow THEN Thrown
                 ELSE Ok(MergeOver(PairsFrom(1, 1, Len(l.ts), Len(r.ts)),
                                   l.ts, r.ts))

\* CommunicationRule.deriveTransitions : the placeholder returns an empty set
CommunicationRuleDerive(T) == Ok(<<>>)

\* SOSRule.canApply of every rule class
canApply(rule, T) ==
    CASE rule.cls = "MockSOSRule" -> rule.shouldApply
      [] rule.cls \in {"PrefixActionRule", "CSPPrefixRule", "ACPPrefixRule"} ->
            T.type = "Prefix"
      [] rule.cls \in {"ChoiceRule", "CSPExternalChoiceRule",
                       "ACPChoiceMergeRule"} -> T.type = "Choice"
      [] OTHER -> T.type = "Parallel"

\* MockSOSRule.deriveTransitions : new Set(this.transitions) holds an object
\* of the array once, however often the array names it
MockSOSRuleDerive(rule) ==
    LET objects == Distinct(rule.transitions)
    IN  Ok([i \in 1..Len(objects) |->
              Transition(objects[i].source, objects[i].action,
                         objects[i].target)])

\* PrefixActionRule / CSPPrefixRule / ACPPrefixRule .deriveTransitions
PrefixRuleDerive(T) ==
    IF T.type # "Prefix" THEN Ok(<<>>)
    ELSE Ok(<<Transition("initial", T.action, "continuation")>>)

\* SOSRule.deriveTransitions of every rule class; a rule handed a term of
\* another class than its own returns an empty set
deriveTransitions(rule, T) ==
    CASE rule.cls = "MockSOSRule" -> MockSOSRuleDerive(rule)
      [] rule.cls \in {"PrefixActionRule", "CSPPrefixRule", "ACPPrefixRule"} ->
            PrefixRuleDerive(T)
      [] rule.cls \in {"ChoiceRule", "CSPExternalChoiceRule"} ->
            ChoiceRuleDerive(T)
      [] rule.cls = "ACPChoiceMergeRule" -> ACPChoiceMergeRuleDerive(T)
      [] rule.cls = "ParallelCompositionRule" -> ParallelCompositionRuleDerive(T)
      [] rule.cls = "CommunicationRule" -> CommunicationRuleDerive(T)
      [] rule.cls = "CSPParallelRule" -> CSPParallelRuleDerive(T)
      [] rule.cls = "CSPSynchronizationRule" -> CSPSynchronizationRuleDerive(T)
      [] rule.cls = "ACPParallelCommunicationRule" ->
            ACPParallelCommunicationRuleDerive(T)

(***************************************************************************)
(* SOSEngine.computeTransitions                                            *)
(***************************************************************************)
\* the key computeTransitions builds for a transition
TransitionKey(t) == t.source \o "-" \o t.action \o "-" \o t.target

\* Map.set(key, transition): a new key goes last, a known key keeps its place
MapSet(map, key, t) ==
    IF \E i \in 1..Len(map) : map[i].key = key
    THEN [i \in 1..Len(map) |->
            IF map[i].key = key THEN [key |-> key, value |-> t] ELSE map[i]]
    ELSE Append(map, [key |-> key, value |-> t])

RECURSIVE MapSetAll(_, _)
MapSetAll(map, ts) ==
    IF ts = <<>> THEN map
    ELSE MapSetAll(MapSet(map, TransitionKey(Head(ts)), Head(ts)), Tail(ts))

RECURSIVE ApplyRules(_, _, _)
ApplyRules(rs, T, map) ==
    IF rs = <<>> THEN Ok(map)
    ELSE IF canApply(Head(rs), T)
         THEN LET d == deriveTransitions(Head(rs), T)
              IN  IF d.overflow THEN Thrown
                  ELSE ApplyRules(Tail(rs), T, MapSetAll(map, d.ts))
         ELSE ApplyRules(Tail(rs), T, map)

computeTransitions(rs, T) ==
    LET m == ApplyRules(rs, T, <<>>)
    IN  IF m.overflow THEN Thrown
        ELSE Ok([i \in 1..Len(m.ts) |-> m.ts[i].value])

\* createDefaultCCSEngine, createCSPSOSRules, createACPSOSRules
CCSRules == <<Rule("PrefixActionRule"), Rule("ChoiceRule"),
              Rule("ParallelCompositionRule"), Rule("CommunicationRule")>>
CSPRules == <<Rule("CSPPrefixRule"), Rule("CSPExternalChoiceRule"),
              Rule("CSPParallelRule"), Rule("CSPSynchronizationRule")>>
ACPRules == <<Rule("ACPPrefixRule"), Rule("ACPChoiceMergeRule"),
              Rule("ACPParallelCommunicationRule")>>

(***************************************************************************)
(* Inputs of the SOS engine runs                                           *)
(***************************************************************************)
\* the co-name of a visible action (the overbar of CCS), written 'a
Complement(a) ==
    IF Len(a) > 0 /\ Head(a) = "'" THEN Tail(a) ELSE "'" \o a

SOSActions == {"a", "'a", "b"}

SOSPrefixes == {PrefixTerm(a, StopTerm) : a \in SOSActions}

\* the operands of a parallel composition
SOSOperands ==
    {StopTerm}
    \cup SOSPrefixes
    \cup {ChoiceTerm(PrefixTerm("a", StopTerm), PrefixTerm("b", StopTerm)),
          PrefixTerm("b", ChoiceTerm(PrefixTerm("a", StopTerm),
                                     PrefixTerm("b", StopTerm))),
          PrefixTerm("b", ChoiceTerm(StopTerm, PrefixTerm("a", StopTerm))),
          RecursiveTerm("X", PrefixTerm("a", MockProcessTerm("X"))),
          RecursiveTerm("X", RecursiveTerm("X", PrefixTerm("a", StopTerm)))}

SOSTerms == SOSOperands \cup {ParallelTerm(L, R) : L, R \in SOSOperands}

\* transitions handed to a MockSOSRule
MockTransitions ==
    {TransitionObject("t1", "s1", "a-b", "c"),
     TransitionObject("t2", "s1", "a", "b-c")}

MockRules ==
    {MockSOSRule(b, ts) : b \in BOOLEAN,
                          ts \in SeqsUpTo(MockTransitions, MaxMockTransitions)}

RuleClasses == Range(CCSRules) \cup Range(CSPRules) \cup Range(ACPRules)

(***************************************************************************)
(* The SOS engine as a state machine: an engine is built by one of the     *)
(* factories or by hand, and computeTransitions is run on a term.          *)
(* result is the outcome of the last run on the engine.                    *)
(***************************************************************************)
\* no LTS built yet, and a new DefaultTransitionRelation()
NoLTS == [built |-> "none", states |-> <<>>, actions |-> <<>>, initialState |-> ""]
LTSIdle == builtLts = NoLTS /\ relation = <<>>

EqIdle ==
    /\ t1 = StopTerm /\ t2 = StopTerm
    /\ verdict = <<>>
    /\ partition = <<>>
    /\ termCache = <<>>

\* term and result hold the last computeTransitions call made on the engine
NoRun == term = StopTerm /\ result = Ok(<<>>)

InitSOS ==
    /\ op = "new SOSEngine"
    /\ rules = <<>>
    /\ model = "custom"
    /\ NoRun
    /\ EqIdle
    /\ LTSIdle

NewSOSEngine ==
    /\ op' = "new SOSEngine"
    /\ rules' = <<>>
    /\ model' = "custom"
    /\ term' = StopTerm /\ result' = Ok(<<>>)
    /\ UNCHANGED <<eqVars, ltsVars>>

createDefaultCCSEngine ==
    /\ op' = "createDefaultCCSEngine"
    /\ rules' = CCSRules
    /\ model' = "CCS"
    /\ term' = StopTerm /\ result' = Ok(<<>>)
    /\ UNCHANGED <<eqVars, ltsVars>>

createCSPEngine ==
    /\ op' = "createCSPEngine"
    /\ rules' = CSPRules
    /\ model' = "CSP"
    /\ term' = StopTerm /\ result' = Ok(<<>>)
    /\ UNCHANGED <<eqVars, ltsVars>>

createACPEngine ==
    /\ op' = "createACPEngine"
    /\ rules' = ACPRules
    /\ model' = "ACP"
    /\ term' = StopTerm /\ result' = Ok(<<>>)
    /\ UNCHANGED <<eqVars, ltsVars>>

\* this.rules.add(rule): held says that the rule object is one the engine
\* holds already, which Set.add leaves where it is; any other object is new
\* to the Set and goes last
RuleSetAdd(rs, rule, held) == IF held THEN rs ELSE Append(rs, rule)

\* the rule objects a caller can hand to an engine holding rs: one of those
\* it holds, or a newly built one while the engine has room for it
AddOptions(rs) ==
    {[rule |-> r, held |-> TRUE] : r \in Range(rs)}
        \cup (IF Len(rs) < MaxRules
              THEN {[rule |-> r, held |-> FALSE] : r \in MockRules \cup RuleClasses}
              ELSE {})

\* the arrays of at most n such rule objects
RECURSIVE AddInputs(_, _)
AddInputs(rs, n) ==
    {<<>>} \cup
    (IF n = 0 THEN {}
     ELSE UNION {{<<x>> \o rest :
                    rest \in AddInputs(RuleSetAdd(rs, x.rule, x.held), n - 1)} :
                 x \in AddOptions(rs)})

\* rules.forEach(rule => this.rules.add(rule))
RECURSIVE AddAll(_, _)
AddAll(rs, array) ==
    IF array = <<>> THEN rs
    ELSE AddAll(RuleSetAdd(rs, Head(array).rule, Head(array).held), Tail(array))

\* SOSEngine.addRule
addRule ==
    /\ \E x \in AddOptions(rules) :
          /\ rules' = RuleSetAdd(rules, x.rule, x.held)
          /\ model' = IF x.held THEN model ELSE "custom"
    /\ op' = "addRule"
    /\ term' = StopTerm /\ result' = Ok(<<>>)
    /\ UNCHANGED <<eqVars, ltsVars>>

\* SOSEngine.addRules
addRules ==
    /\ \E array \in AddInputs(rules, MaxRules) :
          /\ rules' = AddAll(rules, array)
          /\ model' = IF rules' = rules THEN model ELSE "custom"
    /\ op' = "addRules"
    /\ term' = StopTerm /\ result' = Ok(<<>>)
    /\ UNCHANGED <<eqVars, ltsVars>>

ComputeTransitions ==
    /\ \E T \in SOSTerms :
          /\ term' = T
          /\ result' = computeTransitions(rules, T)
    /\ op' = "computeTransitions"
    /\ UNCHANGED <<rules, model>>
    /\ UNCHANGED <<eqVars, ltsVars>>

NextSOS ==
    \/ NewSOSEngine
    \/ createDefaultCCSEngine
    \/ createCSPEngine
    \/ createACPEngine
    \/ addRule
    \/ addRules
    \/ ComputeTransitions

SpecSOS == InitSOS /\ [][NextSOS]_vars

(***************************************************************************)
(* Claims about the SOS engine                                             *)
(***************************************************************************)
\* the set of action labels of a set of transitions
Labels(ts) == {ts[i].action : i \in 1..Len(ts)}

\* a run of computeTransitions on Parallel(L, R) that returned, where both
\* operands have default derivations
ParallelRun(m) ==
    /\ op = "computeTransitions"
    /\ model = m
    /\ term.type = "Parallel"
    /\ ~result.overflow
    /\ ~Derive(term.left).overflow
    /\ ~Derive(term.right).overflow

\* an action the left operand offers whose co-name the right operand offers
Handshakes(T) ==
    {a \in Labels(Derive(T.left).ts) :
        a # "tau" /\ Complement(a) \in Labels(Derive(T.right).ts)}

\* C1: under the CCS engine, when the left operand of a Parallel term can do
\* a and the right operand its complement, the computed transitions hold a
\* silent (tau) transition besides the two interleaved visible ones.
C1_SynchronizationIsExposed ==
    ParallelRun("CCS") =>
        \A a \in Handshakes(term) :
            /\ "tau" \in Labels(result.ts)
            /\ a \in Labels(result.ts)
            /\ Complement(a) \in Labels(result.ts)

\* C2: under the CSP engine, when both operands of a Parallel term offer the
\* same action a, the synchronization transition carries that action a and
\* never tau.
C2_CSPSynchronizationKeepsAction ==
    ParallelRun("CSP") =>
        \A a \in Labels(Derive(term.left).ts) \cap Labels(Derive(term.right).ts) :
            /\ \E i \in 1..Len(result.ts) :
                  /\ result.ts[i].target = "synchronized-action"
                  /\ result.ts[i].action = a
            /\ \A i \in 1..Len(result.ts) :
                  result.ts[i].target = "synchronized-action"
                      => result.ts[i].action # "tau"

\* C3: under the CCS engine either side of Parallel(L, R) may step alone:
\* every action of L and every action of R labels a computed transition.
C3_EitherSideSteps ==
    ParallelRun("CCS") =>
        (Labels(Derive(term.left).ts) \cup Labels(Derive(term.right).ts))
            \subseteq Labels(result.ts)

\* the transitions that the applicable rules of the engine derive for T
RuleTriples(rs, T) ==
    UNION {Range(deriveTransitions(rs[i], T).ts) :
              i \in {j \in 1..Len(rs) : canApply(rs[j], T)}}

\* C4: computeTransitions returns, as a set of (source, action, target)
\* triples, the union of what the applicable rules derive, each distinct
\* triple once (hence the same set for every order of the rules).
C4_DeduplicatedUnion ==
    (op = "computeTransitions" /\ ~result.overflow) =>
        /\ Range(result.ts) = RuleTriples(rules, term)
        /\ Cardinality(Range(result.ts)) = Len(result.ts)

(***************************************************************************)
(* JavaScript string helpers used by the checkers                          *)
(***************************************************************************)
\* String.prototype.split(sep) for a one-character separator
RECURSIVE Split(_, _)
Split(s, sep) ==
    LET idx == {i \in 1..Len(s) : SubSeq(s, i, i) = sep}
    IN  IF idx = {} THEN <<s>>
        ELSE LET i == CHOOSE k \in idx : \A j \in idx : k <= j
             IN  <<SubSeq(s, 1, i - 1)>> \o Split(SubSeq(s, i + 1, Len(s)), sep)

\* Array.prototype.join(sep)
RECURSIVE Join(_, _)
Join(parts, sep) ==
    IF parts = <<>> THEN ""
    ELSE IF Len(parts) = 1 THEN parts[1]
    ELSE parts[1] \o sep \o Join(Tail(parts), sep)

\* the characters the model's strings are made of, in UTF-16 code unit order
Alphabet == "'(),-._abcdefghijklmnopqrstuvwxyz"

CharCode(c) == CHOOSE i \in 1..Len(Alphabet) : SubSeq(Alphabet, i, i) = c

\* a < b in the order Array.prototype.sort() uses by default
RECURSIVE StringLess(_, _)
StringLess(a, b) ==
    IF b = "" THEN FALSE
    ELSE IF a = "" THEN TRUE
    ELSE IF Head(a) = Head(b) THEN StringLess(Tail(a), Tail(b))
    ELSE CharCode(Head(a)) < CharCode(Head(b))

\* Array.prototype.sort() of an array of strings
RECURSIVE Sort(_)
Sort(xs) ==
    IF xs = <<>> THEN <<>>
    ELSE LET rest == Sort(Tail(xs))
             x == Head(xs)
             before == SelectSeq(rest, LAMBDA y : ~StringLess(x, y))
             after == SelectSeq(rest, LAMBDA y : StringLess(x, y))
         IN  before \o <<x>> \o after

(***************************************************************************)
(* verification/equivalence-checker.ts : EquivalenceChecker                *)
(***************************************************************************)
MAX_TRACE_DEPTH == 10

\* exploreTracesWithDepthLimit: the traces the call adds to `traces`.  Each
\* recursive call gets a copy of visited and the same term.
RECURSIVE exploreTracesWithDepthLimit(_, _, _, _)
exploreTracesWithDepthLimit(T, currentTrace, visited, depth) ==
    IF depth >= MAX_TRACE_DEPTH THEN {}
    ELSE IF currentTrace \in visited THEN {}
    ELSE LET transitions == Derive(T).ts
         IN  (IF currentTrace # "" THEN {currentTrace} ELSE {})
             \cup UNION {exploreTracesWithDepthLimit(
                             T,
                             IF currentTrace # ""
                             THEN currentTrace \o "." \o transitions[i].action
                             ELSE transitions[i].action,
                             visited \cup {currentTrace},
                             depth + 1) : i \in 1..Len(transitions)}

computeTraces(T) == exploreTracesWithDepthLimit(T, "", {}, 0)

generateTracePrefixes(trace) ==
    LET actions == Split(trace, ".")
    IN  <<"">> \o [i \in 1..Len(actions) |-> Join(SubSeq(actions, 1, i), ".")]

isTraceContained(trace, traceSet) ==
    LET prefixes == generateTracePrefixes(trace)
    IN  \E i \in 1..Len(prefixes) : prefixes[i] \in traceSet

traceSetsEqual(traces1, traces2) ==
    IF Cardinality(traces1) # Cardinality(traces2) THEN FALSE
    ELSE \A trace \in traces1 : isTraceContained(trace, traces2)

\* groupTransitionsByAction: the Map from action to its set of transitions,
\* a transition object being named by its position
groupTransitionsByAction(transitions) ==
    [a \in Labels(transitions) |->
        {i \in 1..Len(transitions) : transitions[i].action = a}]

advancedTransitionSetComparison(transitions1, transitions2) ==
    LET actionMap1 == groupTransitionsByAction(transitions1)
        actionMap2 == groupTransitionsByAction(transitions2)
    IN  IF Cardinality(DOMAIN actionMap1) # Cardinality(DOMAIN actionMap2)
        THEN FALSE
        ELSE \A action \in DOMAIN actionMap1 :
                /\ action \in DOMAIN actionMap2
                /\ Cardinality(actionMap1[action])
                       = Cardinality(actionMap2[action])

checkBisimulationEquivalence(term1, term2) ==
    advancedTransitionSetComparison(Derive(term1).ts, Derive(term2).ts)

(***************************************************************************)
(* verification/testing-equivalence.ts : TestingEquivalenceChecker         *)
(***************************************************************************)
\* default maxDepth of generateTests
TestMaxDepth == 3

computeObservation(T) ==
    LET transitions == Derive(T).ts
    IN  [type |-> IF Len(transitions) > 0 THEN "success" ELSE "failure",
         actions |-> Actions(transitions)]

RECURSIVE FlattenSeq(_)
FlattenSeq(ss) == IF ss = <<>> THEN <<>> ELSE Head(ss) \o FlattenSeq(Tail(ss))

\* exploreTests: the tests the call adds to `tests`, in insertion order
RECURSIVE exploreTests(_, _, _, _)
exploreTests(T, currentActions, currentDepth, maxDepth) ==
    <<[actions |-> currentActions, observation |-> computeObservation(T)]>>
    \o (IF currentDepth >= maxDepth THEN <<>>
        ELSE LET transitions == Derive(T).ts
             IN  FlattenSeq([i \in 1..Len(transitions) |->
                     exploreTests(T,
                                  Append(currentActions, transitions[i].action),
                                  currentDepth + 1, maxDepth)]))

generateTests(T) == exploreTests(T, <<>>, 0, TestMaxDepth)

actionsEqual(actions1, actions2) ==
    IF Len(actions1) # Len(actions2) THEN FALSE
    ELSE \A i \in 1..Len(actions1) : actions1[i] = actions2[i]

testsEquivalent(test1, test2) ==
    IF Len(test1.actions) # Len(test2.actions) THEN FALSE
    ELSE IF \E i \in 1..Len(test1.actions) :
                test1.actions[i] # test2.actions[i] THEN FALSE
    ELSE /\ test1.observation.type = test2.observation.type
         /\ actionsEqual(test1.observation.actions, test2.observation.actions)

testPassedByAnySet(test, testSet) ==
    \E i \in 1..Len(testSet) : testsEquivalent(test, testSet[i])

compareMayTestSets(tests1, tests2) ==
    \A i \in 1..Len(tests2) : testPassedByAnySet(tests2[i], tests1)

compareMustTestSets(tests1, tests2) ==
    IF Len(tests1) # Len(tests2) THEN FALSE
    ELSE \A i \in 1..Len(tests1) : testPassedByAnySet(tests1[i], tests2)

checkMayTesting(term1, term2) ==
    compareMayTestSets(generateTests(term1), generateTests(term2))

checkMustTesting(term1, term2) ==
    compareMustTestSets(generateTests(term1), generateTests(term2))

(***************************************************************************)
(* FailuresEquivalenceChecker                                              *)
(***************************************************************************)
\* default maxDepth of computeFailureSet
FailuresMaxDepth == 3

getAllPossibleActions(T) == Distinct(Actions(Derive(T).ts))

\* what two failure sets put together hold
FailureSetConcat(f, g) ==
    [traces |-> f.traces \o g.traces, refusals |-> f.refusals \o g.refusals]

RECURSIVE FailureSetFlatten(_)
FailureSetFlatten(fs) ==
    IF fs = <<>> THEN [traces |-> <<>>, refusals |-> <<>>]
    ELSE FailureSetConcat(Head(fs), FailureSetFlatten(Tail(fs)))

\* exploreFailures: what the call pushes onto failureSet, in order
RECURSIVE exploreFailures(_, _, _, _)
exploreFailures(T, currentTrace, currentDepth, maxDepth) ==
    LET here == IF Len(currentTrace) > 0 THEN <<currentTrace>> ELSE <<>>
    IN  IF currentDepth >= maxDepth
        THEN [traces |-> here, refusals |-> <<>>]
        ELSE LET transitions == Derive(T).ts
                 possibleActions == Labels(transitions)
                 allPossibleActions == getAllPossibleActions(T)
                 refusals == SelectSeq(allPossibleActions,
                                       LAMBDA a : a \notin possibleActions)
             IN  FailureSetConcat(
                     [traces |-> here, refusals |-> refusals],
                     FailureSetFlatten([i \in 1..Len(transitions) |->
                         exploreFailures(T,
                                         Append(currentTrace,
                                                transitions[i].action),
                                         currentDepth + 1, maxDepth)]))

computeFailureSet(T) == exploreFailures(T, <<>>, 0, FailuresMaxDepth)

compareFailureSets(set1, set2) ==
    IF Len(set1.traces) # Len(set2.traces) THEN FALSE
    ELSE Range(set1.refusals) = Range(set2.refusals)

checkFailuresEquivalence(term1, term2) ==
    compareFailureSets(computeFailureSet(term1), computeFailureSet(term2))

tracesEqual(trace1, trace2) ==
    IF Len(trace1) # Len(trace2) THEN FALSE
    ELSE \A i \in 1..Len(trace1) : trace1[i] = trace2[i]

traceExistsInSet(trace, traces) ==
    \E i \in 1..Len(traces) : tracesEqual(trace, traces[i])

isRefinedBy(set1, set2) ==
    IF \E i \in 1..Len(set1.traces) :
           ~traceExistsInSet(set1.traces[i], set2.traces)
    THEN FALSE
    ELSE Range(set1.refusals) \subseteq Range(set2.refusals)

\* checks if term1 is refined by term2
checkRefinement(term1, term2) ==
    isRefinedBy(computeFailureSet(term1), computeFailureSet(term2))

(***************************************************************************)
(* verification/bisimulation.ts : BisimulationChecker                      *)
(*                                                                         *)
(* The two terms handed to the checkers are the objects "o1" and "o2";     *)
(* a block of the partition is the sequence of the objects it holds, in    *)
(* insertion order, and the partition is the sequence of its blocks.       *)
(***************************************************************************)
TermOf(ref) == IF ref = "o1" THEN t1 ELSE t2

Null == [type |-> "null"]

\* Set.prototype.add on a set kept in insertion order
SetAdd(set, x) == IF x \in Range(set) THEN set ELSE Append(set, x)

initializePartition(part, term1, term2) ==
    Append(part, SetAdd(SetAdd(<<>>, term1), term2))

computeTransitionSignature(ref) ==
    Join(Sort(Actions(Derive(TermOf(ref)).ts)), ",")

\* the groups of the Map, in the order their signatures were first seen
RECURSIVE groupByTransitionSignature(_)
groupByTransitionSignature(block) ==
    IF block = <<>> THEN <<>>
    ELSE LET groups == groupByTransitionSignature(SubSeq(block, 1, Len(block) - 1))
             ref == block[Len(block)]
             signature == computeTransitionSignature(ref)
         IN  IF \E i \in 1..Len(groups) : groups[i].signature = signature
             THEN [i \in 1..Len(groups) |->
                     IF groups[i].signature = signature
                     THEN [groups[i] EXCEPT !.members = SetAdd(@, ref)]
                     ELSE groups[i]]
             ELSE Append(groups, [signature |-> signature, members |-> <<ref>>])

refineBlock(block) ==
    LET transitionGroups == groupByTransitionSignature(block)
    IN  [i \in 1..Len(transitionGroups) |-> transitionGroups[i].members]

refinePartition(part) ==
    [changed |-> \E i \in 1..Len(part) : Len(refineBlock(part[i])) > 1,
     partition |-> FlattenSeq([i \in 1..Len(part) |-> refineBlock(part[i])])]

\* do { changed = refinePartition() } while (changed)
RECURSIVE RefinementLoop(_)
RefinementLoop(part) ==
    LET pass == refinePartition(part)
    IN  IF pass.changed THEN RefinementLoop(pass.partition) ELSE pass.partition

areTermsInSamePartition(part, term1, term2) ==
    \E i \in 1..Len(part) : term1 \in Range(part[i]) /\ term2 \in Range(part[i])

\* the outcome of the call and the partition it leaves behind; derive()
\* throwing in the first refinement pass leaves the partition as
\* initializePartition made it
checkStrongBisimulation(part, term1, term2) ==
    LET initial == initializePartition(part, term1, term2)
    IN  IF \E i \in 1..Len(initial) : \E ref \in Range(initial[i]) :
               Derive(TermOf(ref)).overflow
        THEN [outcome |-> "RangeError", partition |-> initial]
        ELSE LET refined == RefinementLoop(initial)
             IN  [outcome |-> IF areTermsInSamePartition(refined, term1, term2)
                              THEN "true" ELSE "false",
                  partition |-> refined]

getProcessTermFromState(state) ==
    IF \E i \in 1..Len(termCache) : termCache[i].key = state
    THEN termCache[CHOOSE i \in 1..Len(termCache) : termCache[i].key = state].value
    ELSE Null

\* getTauReachableStates: the worklist loop, toExplore being a stack
RECURSIVE TauReachableLoop(_, _, _)
TauReachableLoop(toExplore, visited, reachable) ==
    IF toExplore = <<>> THEN reachable
    ELSE LET current == toExplore[Len(toExplore)]
             rest == SubSeq(toExplore, 1, Len(toExplore) - 1)
             currentId == toString(current)
             transitions == Derive(current).ts
             taus == SelectSeq(transitions, LAMBDA t :
                         t.action = "tau"
                         /\ getProcessTermFromState(t.target) # Null)
         IN  IF currentId \in visited
             THEN TauReachableLoop(rest, visited, reachable)
             ELSE TauReachableLoop(
                      rest \o [i \in 1..Len(taus) |->
                                  getProcessTermFromState(taus[i].target)],
                      visited \cup {currentId},
                      Append(reachable, current))

getTauReachableStates(T) == TauReachableLoop(<<T>>, {}, <<>>)

filterNonTauTransitions(transitions) ==
    SelectSeq(transitions, LAMBDA t : t.action # "tau")

\* computeTauReachable, the closure of computeWeakTransitions: acc holds the
\* closure's weakTransitions and visited
RECURSIVE computeTauReachable(_, _)
RECURSIVE TauReachableOver(_, _)
computeTauReachable(currentTerm, acc) ==
    LET termId == toString(currentTerm)
    IN  IF termId \in acc.visited THEN acc
        ELSE TauReachableOver(Derive(currentTerm).ts,
                              [acc EXCEPT !.visited = @ \cup {termId}])

TauReachableOver(directTransitions, acc) ==
    IF directTransitions = <<>> THEN acc
    ELSE LET transition == Head(directTransitions)
             targetTerm == getProcessTermFromState(transition.target)
             reachable == getTauReachableStates(targetTerm)
         IN  IF transition.action = "tau"
             THEN TauReachableOver(Tail(directTransitions),
                      IF targetTerm # Null
                      THEN computeTauReachable(targetTerm, acc)
                      ELSE acc)
             ELSE TauReachableOver(Tail(directTransitions),
                      [acc EXCEPT !.weakTransitions =
                          Append(@, transition)
                          \o (IF targetTerm # Null
                              THEN FlattenSeq([i \in 1..Len(reachable) |->
                                       filterNonTauTransitions(
                                           Derive(reachable[i]).ts)])
                              ELSE <<>>)])

computeWeakTransitions(T) ==
    computeTauReachable(T, [weakTransitions |-> <<>>, visited |-> {}]).weakTransitions

RECURSIVE checkWeakBisimulation(_, _)
transitionsMatch(x, y) ==
    IF x.action # y.action THEN FALSE
    ELSE LET target1 == getProcessTermFromState(x.target)
             target2 == getProcessTermFromState(y.target)
         IN  IF target1 # Null /\ target2 # Null
             THEN checkWeakBisimulation(target1, target2)
             ELSE x.target = y.target

transitionSetsEqual(transitions1, transitions2) ==
    IF Len(transitions1) # Len(transitions2) THEN FALSE
    ELSE \A i \in 1..Len(transitions1) : \E j \in 1..Len(transitions2) :
            transitionsMatch(transitions1[i], transitions2[j])

compareWeakTransitions(transitions1, transitions2) ==
    transitionSetsEqual(filterNonTauTransitions(transitions1),
                        filterNonTauTransitions(transitions2))

checkWeakBisimulation(term1, term2) ==
    compareWeakTransitions(computeWeakTransitions(term1),
                           computeWeakTransitions(term2))

(***************************************************************************)
(* The terms the equivalence checkers are run on                           *)
(***************************************************************************)
RecXaX == RecursiveTerm("X", PrefixTerm("a", MockProcessTerm("X")))
RecXRecX == RecursiveTerm("X", RecursiveTerm("X", PrefixTerm("a", StopTerm)))
Vending1 ==
    PrefixTerm("coin", ChoiceTerm(PrefixTerm("coffee", StopTerm),
                                  PrefixTerm("tea", StopTerm)))
Vending2 ==
    PrefixTerm("coin",
               ChoiceTerm(PrefixTerm("tau", PrefixTerm("coffee", StopTerm)),
                          PrefixTerm("tau", PrefixTerm("tea", StopTerm))))

EqTerms ==
    {StopTerm,
     PrefixTerm("a", StopTerm),
     PrefixTerm("tau", StopTerm),
     PrefixTerm("tau", PrefixTerm("a", StopTerm)),
     PrefixTerm("a", PrefixTerm("b", StopTerm)),
     PrefixTerm("a", PrefixTerm("c", StopTerm)),
     ChoiceTerm(PrefixTerm("a", StopTerm), PrefixTerm("b", StopTerm)),
     ChoiceTerm(PrefixTerm("b", StopTerm), PrefixTerm("a", StopTerm)),
     ChoiceTerm(PrefixTerm("a", StopTerm), PrefixTerm("a", StopTerm)),
     RecXaX, RecXRecX, Vending1, Vending2}

checkTraceEquivalence(term1, term2) ==
    traceSetsEqual(computeTraces(term1), computeTraces(term2))

checkTestingEquivalence(term1, term2) == checkTraceEquivalence(term1, term2)

EquivalenceChecker_checkFailuresEquivalence(term1, term2) ==
    checkTraceEquivalence(term1, term2)

EquivalenceTypes == {"TRACE", "BISIMULATION", "TESTING", "FAILURES"}

\* what a call that ends normally returns
Returned(b) == IF b THEN "true" ELSE "false"

\* derive() is called on the two terms handed in and on no other term
Throws(term1, term2) == Derive(term1).overflow \/ Derive(term2).overflow

\* checkEquivalence with the default case of the switch left out: an unknown
\* kind falls through to the trace check
checkEquivalenceWithoutDefault(term1, term2, type) ==
    IF Throws(term1, term2) THEN "RangeError"
    ELSE IF type = "BISIMULATION"
         THEN Returned(checkBisimulationEquivalence(term1, term2))
    ELSE IF type = "TESTING"
         THEN Returned(checkTestingEquivalence(term1, term2))
    ELSE IF type = "FAILURES"
         THEN Returned(EquivalenceChecker_checkFailuresEquivalence(term1, term2))
    ELSE Returned(checkTraceEquivalence(term1, term2))

checkEquivalence(term1, term2, type) ==
    IF type \notin EquivalenceTypes THEN "Error: Unsupported equivalence type"
    ELSE IF Throws(term1, term2) THEN "RangeError"
    ELSE IF type = "TRACE" THEN Returned(checkTraceEquivalence(term1, term2))
    ELSE IF type = "BISIMULATION"
         THEN Returned(checkBisimulationEquivalence(term1, term2))
    ELSE IF type = "TESTING"
         THEN Returned(checkTestingEquivalence(term1, term2))
    ELSE Returned(EquivalenceChecker_checkFailuresEquivalence(term1, term2))

\* checkEquivalence on the terms above, evaluated once
EquivalenceVerdicts ==
    [type \in EquivalenceTypes \cup {"OTHER"} |->
        [T \in EqTerms |-> [U \in EqTerms |-> checkEquivalence(T, U, type)]]]

(***************************************************************************)
(* The equivalence checkers as a state machine: two term objects, one      *)
(* BisimulationChecker whose partition outlives its calls, and the last    *)
(* call made with its arguments and outcome                                *)
(***************************************************************************)
MaxPartition == 2

Args == {<<"o1", "o2">>, <<"o2", "o1">>, <<"o1", "o1">>}

NoCall == [kind |-> "none", args |-> <<>>, outcome |-> "none"]

SOSIdle == rules = <<>> /\ model = "custom" /\ term = StopTerm /\ result = Ok(<<>>)

InitEq ==
    /\ op = "new BisimulationChecker"
    /\ SOSIdle
    /\ LTSIdle
    /\ t1 \in EqTerms
    /\ t2 \in EqTerms
    /\ verdict = NoCall
    /\ partition = <<>>
    /\ termCache = <<>>

Call(kind, args, outcome) ==
    /\ op' = kind
    /\ verdict' = [kind |-> kind, args |-> args, outcome |-> outcome]
    /\ UNCHANGED <<sosVars, ltsVars, t1, t2, termCache>>

NewBisimulationChecker ==
    /\ op' = "new BisimulationChecker"
    /\ partition' = <<>>
    /\ termCache' = <<>>
    /\ verdict' = NoCall
    /\ UNCHANGED <<sosVars, ltsVars, t1, t2>>

CheckEquivalence ==
    \E args \in Args, type \in EquivalenceTypes \cup {"OTHER"} :
        /\ Call(type, args,
                EquivalenceVerdicts[type][TermOf(args[1])][TermOf(args[2])])
        /\ UNCHANGED partition

CheckStrongBisimulation ==
    \E args \in Args :
        /\ Len(partition) < MaxPartition
        /\ LET call == checkStrongBisimulation(partition, args[1], args[2])
           IN  /\ Call("checkStrongBisimulation", args, call.outcome)
               /\ partition' = call.partition

CheckWeakBisimulation ==
    \E args \in Args :
        /\ Call("checkWeakBisimulation", args,
                IF Throws(TermOf(args[1]), TermOf(args[2])) THEN "RangeError"
                ELSE Returned(checkWeakBisimulation(TermOf(args[1]),
                                                    TermOf(args[2]))))
        /\ UNCHANGED partition

CheckMayTesting ==
    \E args \in Args :
        /\ Call("checkMayTesting", args,
                IF Throws(TermOf(args[1]), TermOf(args[2])) THEN "RangeError"
                ELSE Returned(checkMayTesting(TermOf(args[1]), TermOf(args[2]))))
        /\ UNCHANGED partition

CheckMustTesting ==
    \E args \in Args :
        /\ Call("checkMustTesting", args,
                IF Throws(TermOf(args[1]), TermOf(args[2])) THEN "RangeError"
                ELSE Returned(checkMustTesting(TermOf(args[1]), TermOf(args[2]))))
        /\ UNCHANGED partition

CheckFailuresEquivalence ==
    \E args \in Args :
        /\ Call("checkFailuresEquivalence", args,
                IF Throws(TermOf(args[1]), TermOf(args[2])) THEN "RangeError"
                ELSE Returned(checkFailuresEquivalence(TermOf(args[1]),
                                                       TermOf(args[2]))))
        /\ UNCHANGED partition

CheckRefinement ==
    \E args \in Args :
        /\ Call("checkRefinement", args,
                IF Throws(TermOf(args[1]), TermOf(args[2])) THEN "RangeError"
                ELSE Returned(checkRefinement(TermOf(args[1]), TermOf(args[2]))))
        /\ UNCHANGED partition

NextEq ==
    \/ NewBisimulationChecker
    \/ CheckEquivalence
    \/ CheckStrongBisimulation
    \/ CheckWeakBisimulation
    \/ CheckMayTesting
    \/ CheckMustTesting
    \/ CheckFailuresEquivalence
    \/ CheckRefinement

SpecEq == InitEq /\ [][NextEq]_vars

(***************************************************************************)
(* Properties of the equivalence checkers                                  *)
(***************************************************************************)
Called == verdict.kind # "none"
Arg1 == TermOf(verdict.args[1])
Arg2 == TermOf(verdict.args[2])
Decided == verdict.outcome \in {"true", "false"}

\* the steps of a term, each with the term it leads to
RECURSIVE Steps(_)
Steps(T) ==
    IF T.type = "Prefix" THEN {<<T.action, T.continuation>>}
    ELSE IF T.type = "Choice" THEN Steps(T.left) \cup Steps(T.right)
    ELSE IF T.type = "Recursive" THEN Steps(Unfold(T))
    ELSE {}

\* the action sequences of length at most n a term can execute, each step
\* continuing from the term the previous one led to
RECURSIVE ExecutableTraces(_, _)
ExecutableTraces(T, n) ==
    {<<>>} \cup
    (IF n = 0 THEN {}
     ELSE UNION {{<<s[1]>> \o tr : tr \in ExecutableTraces(s[2], n - 1)} :
                 s \in Steps(T)})

\* C5: the trace-equivalence check answers true exactly when the two terms
\* have the same set of action sequences executable within the depth bound,
\* every step continuing from the state the previous step reached.
C5_TraceEquivalenceIsTraceSetEquality ==
    (Called /\ verdict.kind = "TRACE" /\ Decided) =>
        ((verdict.outcome = "true")
         <=> (ExecutableTraces(Arg1, MAX_TRACE_DEPTH)
              = ExecutableTraces(Arg2, MAX_TRACE_DEPTH)))

\* C6: on the vending machine that offers coffee or tea after the coin and
\* the one that commits silently to one of them after the coin, the trace
\* check answers true and the weak-bisimulation check answers false.
C6_VendingMachines ==
    (Called /\ Arg1 = Vending1 /\ Arg2 = Vending2) =>
        /\ verdict.kind = "TRACE" => verdict.outcome = "true"
        /\ verdict.kind = "checkWeakBisimulation" => verdict.outcome = "false"

WeakerKinds ==
    {"checkWeakBisimulation", "TRACE", "TESTING", "FAILURES",
     "checkMayTesting", "checkMustTesting", "checkFailuresEquivalence"}

\* C7: when the strong-bisimulation check has answered true for a pair, the
\* weak-bisimulation, trace, testing (may, must) and failures checks made
\* next on the same pair answer true as well.
C7_StrongImpliesWeaker ==
    [][(/\ verdict.kind = "checkStrongBisimulation"
        /\ verdict.outcome = "true"
        /\ verdict'.kind \in WeakerKinds
        /\ verdict'.args = verdict.args)
       => verdict'.outcome = "true"]_vars

SymmetricKinds ==
    {"TRACE", "checkStrongBisimulation", "checkWeakBisimulation",
     "checkMayTesting", "checkMustTesting", "checkFailuresEquivalence"}

\* C8: a check of any kind made on (T1, T2) and then on (T2, T1) gives the
\* same verdict both times.
C8_Symmetry ==
    [][(/\ verdict.kind \in SymmetricKinds
        /\ verdict'.kind = verdict.kind
        /\ verdict'.args = <<verdict.args[2], verdict.args[1]>>)
       => verdict'.outcome = verdict.outcome]_vars

ReflexiveKinds ==
    {"TRACE", "BISIMULATION", "TESTING", "FAILURES",
     "checkStrongBisimulation", "checkWeakBisimulation",
     "checkMayTesting", "checkMustTesting", "checkFailuresEquivalence"}

\* C9: a check of any kind of a term against itself answers true.
C9_Reflexivity ==
    (Called /\ verdict.kind \in ReflexiveKinds /\ Arg1 = Arg2) =>
        verdict.outcome = "true"

\* C10: the weak-bisimulation check of tau.P against P answers true, for
\* every term P.
C10_TauPrefixIsTransparent ==
    (/\ Called
     /\ verdict.kind = "checkWeakBisimulation"
     /\ Arg1 = PrefixTerm("tau", Arg2)) => verdict.outcome = "true"
\* some transition a term can reach is labelled with the silent action
RECURSIVE HasTau(_)
HasTau(T) ==
    IF T.type = "Prefix" THEN T.action = "tau" \/ HasTau(T.continuation)
    ELSE IF T.type \in {"Choice", "Parallel"} THEN HasTau(T.left) \/ HasTau(T.right)
    ELSE IF T.type = "Recursive" THEN HasTau(T.definition)
    ELSE FALSE

\* C11: on a pair of terms that can reach no silent transition, the
\* weak-bisimulation check made after the strong-bisimulation check on the
\* same pair gives the same verdict.
C11_WeakIsStrongWithoutTau ==
    [][(/\ verdict.kind = "checkStrongBisimulation"
        /\ verdict'.kind = "checkWeakBisimulation"
        /\ verdict'.args = verdict.args
        /\ ~HasTau(Arg1) /\ ~HasTau(Arg2))
       => verdict'.outcome = verdict.outcome]_vars

\* C12: checkEquivalence with kind TESTING answers true exactly when the
\* may-testing check and the must-testing check of the same pair both
\* answer true.
C12_TestingIsMayAndMust ==
    (Called /\ verdict.kind = "TESTING" /\ Decided) =>
        ((verdict.outcome = "true")
         <=> (checkMayTesting(Arg1, Arg2) /\ checkMustTesting(Arg1, Arg2)))

\* the actions a term can perform next
Initials(T) == {s[1] : s \in Steps(T)}

\* the terms a term can be in after executing a trace
RECURSIVE After(_, _)
After(T, tr) ==
    IF tr = <<>> THEN {T}
    ELSE UNION {After(s[2], Tail(tr)) : s \in {x \in Steps(T) : x[1] = Head(tr)}}

\* the visible actions that occur in a term
RECURSIVE VisibleActions(_)
VisibleActions(T) ==
    IF T.type = "Prefix"
    THEN (IF T.action = "tau" THEN {} ELSE {T.action})
         \cup VisibleActions(T.continuation)
    ELSE IF T.type \in {"Choice", "Parallel"}
    THEN VisibleActions(T.left) \cup VisibleActions(T.right)
    ELSE IF T.type = "Recursive" THEN VisibleActions(T.definition)
    ELSE {}

\* the failures of a term over the alphabet Sigma: a trace of length at most
\* n with a set of visible actions the term can refuse after it
Failures(T, n, Sigma) ==
    UNION {UNION {{<<tr, X>> : X \in SUBSET (Sigma \ Initials(S))} :
                  S \in After(T, tr)} :
           tr \in ExecutableTraces(T, n)}

Sigma12 == VisibleActions(t1) \cup VisibleActions(t2)

\* C13: the failures check answers true exactly when the two terms have the
\* same traces and, after each of them, the same sets of refused visible
\* actions.
C13_FailuresEquivalence ==
    (Called /\ verdict.kind \in {"FAILURES", "checkFailuresEquivalence"}
            /\ Decided) =>
        ((verdict.outcome = "true")
         <=> (Failures(Arg1, FailuresMaxDepth, Sigma12)
              = Failures(Arg2, FailuresMaxDepth, Sigma12)))

\* C14: checkRefinement(specification, refining term) answers true exactly
\* when every failure (trace with refusal) of the refining term is a failure
\* of the specification; failures of the specification need no match.
C14_RefinementIsFailuresInclusion ==
    (Called /\ verdict.kind = "checkRefinement" /\ Decided) =>
        ((verdict.outcome = "true")
         <=> (Failures(Arg2, FailuresMaxDepth, Sigma12)
              \subseteq Failures(Arg1, FailuresMaxDepth, Sigma12)))

\* exploreTracesWithDepthLimit stops some branch at the depth bound
RECURSIVE TraceDepthBoundReached(_, _, _, _)
TraceDepthBoundReached(T, currentTrace, visited, depth) ==
    IF depth >= MAX_TRACE_DEPTH THEN TRUE
    ELSE IF currentTrace \in visited THEN FALSE
    ELSE LET transitions == Derive(T).ts
         IN  \E i \in 1..Len(transitions) :
                TraceDepthBoundReached(
                    T,
                    IF currentTrace # ""
                    THEN currentTrace \o "." \o transitions[i].action
                    ELSE transitions[i].action,
                    visited \cup {currentTrace},
                    depth + 1)

\* exploreFailures stops some branch at maxDepth with transitions left
RECURSIVE FailuresDepthBoundReached(_, _, _)
FailuresDepthBoundReached(T, currentDepth, maxDepth) ==
    IF currentDepth >= maxDepth THEN Len(Derive(T).ts) > 0
    ELSE \E i \in 1..Len(Derive(T).ts) :
            FailuresDepthBoundReached(T, currentDepth + 1, maxDepth)

LimitReached ==
    \/ /\ verdict.kind \in {"TRACE", "TESTING", "FAILURES"}
       /\ \/ TraceDepthBoundReached(Arg1, "", {}, 0)
          \/ TraceDepthBoundReached(Arg2, "", {}, 0)
    \/ /\ verdict.kind \in {"checkFailuresEquivalence", "checkRefinement"}
       /\ \/ FailuresDepthBoundReached(Arg1, 0, FailuresMaxDepth)
          \/ FailuresDepthBoundReached(Arg2, 0, FailuresMaxDepth)

\* C15: a check whose exploration was cut off at its depth bound reports an
\* outcome of its own, neither equivalent nor not equivalent.
C15_InconclusiveAtTheBound ==
    (Called /\ verdict.outcome # "RangeError" /\ LimitReached) =>
        verdict.outcome \notin {"true", "false"}

(***************************************************************************)
(* core/lts.ts : DefaultTransitionRelation.  The Map from a source state   *)
(* to its Set<Transition> is the sequence of its entries, and the set, a   *)
(* set of objects, is the sequence of the transitions added to it.         *)
(***************************************************************************)
\* Map.get(key), <<>> standing for undefined
MapGet(map, key) ==
    IF \E i \in 1..Len(map) : map[i].key = key
    THEN map[CHOOSE i \in 1..Len(map) : map[i].key = key].value
    ELSE <<>>

\* the relation after add(source, action, target): the Transition is a new
\* object, which Set.add always inserts
add(rel, source, action, target) ==
    LET transition == Transition(source, action, target)
        sourceTransitions == MapGet(rel, source)
    IN  MapSet(rel, source, Append(sourceTransitions, transition))

getTransitions(rel, state) == MapGet(rel, state)

getTargetStates(rel, source, action) ==
    LET sourceTransitions == getTransitions(rel, source)
        matching == SelectSeq(sourceTransitions, LAMBDA t : t.action = action)
    IN  Distinct([i \in 1..Len(matching) |-> matching[i].target])

(***************************************************************************)
(* core/lts-builder.ts : LTSBuilder.fromProcessTerm                        *)
(***************************************************************************)
\* explore: acc holds states, actions, transitions and visited of the
\* enclosing call, and whether the call stack has overflowed (in derive(),
\* or in explore itself, of which d nested calls are left)
RECURSIVE explore(_, _, _)
RECURSIVE ExploreOver(_, _, _, _, _)
explore(currentTerm, acc, d) ==
    LET termId == toString(currentTerm)
    IN  IF acc.overflow THEN acc
        ELSE IF d = 0 THEN [acc EXCEPT !.overflow = TRUE]
        ELSE IF termId \in acc.visited THEN acc
        ELSE LET entered == [acc EXCEPT !.visited = @ \cup {termId},
                                        !.states = SetAdd(@, termId)]
                 derivedTransitions == Derive(currentTerm)
             IN  IF derivedTransitions.overflow
                 THEN [entered EXCEPT !.overflow = TRUE]
                 ELSE ExploreOver(derivedTransitions.ts, currentTerm, termId,
                                  entered, d)

ExploreOver(derivedTransitions, currentTerm, termId, acc, d) ==
    IF derivedTransitions = <<>> \/ acc.overflow THEN acc
    ELSE LET transition == Head(derivedTransitions)
             recorded ==
                 [acc EXCEPT !.actions = SetAdd(@, transition.action),
                             !.transitions = add(@, termId, transition.action,
                                                 transition.target)]
             targetTerm == Substitute(currentTerm, "", currentTerm)
         IN  ExploreOver(Tail(derivedTransitions), currentTerm, termId,
                         explore(targetTerm, recorded, d - 1), d)

\* the LTS returned, or the RangeError thrown out of explore
fromProcessTerm(T) ==
    LET acc == explore(T, [states |-> <<>>, actions |-> <<>>,
                           transitions |-> <<>>, visited |-> {},
                           overflow |-> FALSE], StackLimit)
    IN  IF acc.overflow
        THEN [built |-> "RangeError", states |-> <<>>, actions |-> <<>>,
              transitions |-> <<>>, initialState |-> ""]
        ELSE [built |-> "returned", states |-> acc.states,
              actions |-> acc.actions, transitions |-> acc.transitions,
              initialState |-> toString(T)]

(***************************************************************************)
(* The LTS builder and the transition relation as a state machine:         *)
(* builtLts is the LTS last built, relation its transition relation (or a  *)
(* new one),                                                               *)
(* to which the caller may add transitions                                 *)
(***************************************************************************)
MaxTransitions == 3

LTSTerms ==
    {StopTerm,
     PrefixTerm("a", StopTerm),
     PrefixTerm("a", PrefixTerm("b", StopTerm)),
     ChoiceTerm(PrefixTerm("a", StopTerm), PrefixTerm("b", StopTerm)),
     ChoiceTerm(PrefixTerm("a", StopTerm), PrefixTerm("a", StopTerm)),
     RecXaX, RecXRecX}

AddStates == {"STOP", "next"}
AddActions == {"a", "b"}

RECURSIVE RelationSize(_)
RelationSize(rel) ==
    IF rel = <<>> THEN 0 ELSE Len(Head(rel).value) + RelationSize(Tail(rel))

InitLTS ==
    /\ op = "new DefaultTransitionRelation"
    /\ SOSIdle
    /\ EqIdle
    /\ LTSIdle

NewDefaultTransitionRelation ==
    /\ op' = "new DefaultTransitionRelation"
    /\ builtLts' = NoLTS
    /\ relation' = <<>>
    /\ UNCHANGED <<sosVars, eqVars>>

FromProcessTerm ==
    \E T \in LTSTerms :
        LET built == fromProcessTerm(T)
        IN  /\ op' = "fromProcessTerm"
            /\ term' = T
            /\ builtLts' = [built |-> built.built, states |-> built.states,
                       actions |-> built.actions,
                       initialState |-> built.initialState]
            /\ relation' = IF built.built = "returned" THEN built.transitions
                           ELSE relation
            /\ UNCHANGED <<rules, model, result, eqVars>>

Add ==
    \E source \in AddStates, action \in AddActions, target \in AddStates :
        /\ RelationSize(relation) < MaxTransitions
        /\ op' = "add"
        /\ relation' = add(relation, source, action, target)
        /\ UNCHANGED <<sosVars, eqVars, builtLts>>

NextLTS ==
    \/ NewDefaultTransitionRelation
    \/ FromProcessTerm
    \/ Add

SpecLTS == InitLTS /\ [][NextLTS]_vars

(***************************************************************************)
(* Properties of the LTS builder and of the transition relation            *)
(***************************************************************************)
Built == op = "fromProcessTerm" /\ builtLts.built = "returned"

\* every transition the relation holds
AllTransitions(rel) == UNION {Range(rel[i].value) : i \in 1..Len(rel)}

\* C16: in the LTS fromProcessTerm returns, the target of every recorded
\* transition is one of the LTS's states.
C16_TargetsAreStates ==
    Built => \A t \in AllTransitions(relation) : t.target \in Range(builtLts.states)

\* the terms reachable from the terms of a frontier
RECURSIVE ReachableFrom(_, _)
ReachableFrom(frontier, seen) ==
    IF frontier = {} THEN seen
    ELSE LET successors == UNION {{s[2] : s \in Steps(S)} : S \in frontier}
         IN  ReachableFrom(successors \ (seen \cup frontier), seen \cup frontier)

Reachable(T) == ReachableFrom({T}, {})

\* C17: the LTS fromProcessTerm returns is complete: its states are the
\* canonical forms of the terms reachable from the input term, and its
\* transitions are the one-step transitions between them.
C17_CompleteLTS ==
    Built =>
        /\ Range(builtLts.states) = {toString(S) : S \in Reachable(term)}
        /\ AllTransitions(relation) =
              UNION {{Transition(toString(S), s[1], toString(s[2])) :
                      s \in Steps(S)} : S \in Reachable(term)}

\* C18: fromProcessTerm comes to an end and returns an LTS on every
\* finitely-branching, guardedly-recursive term.
C18_BuilderTerminates ==
    op = "fromProcessTerm" => builtLts.built = "returned"

\* C19: adding a triple the relation already holds for its source leaves
\* getTransitions(source) as it was: the triple is held once.
C19_AddIsIdempotent ==
    [][\A source \in AddStates, action \in AddActions, target \in AddStates :
         (/\ op' = "add"
          /\ relation' = add(relation, source, action, target)
          /\ Transition(source, action, target)
                \in Range(getTransitions(relation, source)))
         => Len(getTransitions(relation', source))
                = Len(getTransitions(relation, source))]_vars

\* C20: under the ACP engine either operand of Parallel(L, R) may move alone:
\* every action of L and every action of R labels a computed transition,
\* next to any communication transition.
C20_ACPInterleaving ==
    ParallelRun("ACP") =>
        (Labels(Derive(term.left).ts) \cup Labels(Derive(term.right).ts))
            \subseteq Labels(result.ts)

\* the actions of a trace string, in order
TraceActions(trace) == Range(Split(trace, "."))

\* C21: the trace sets the trace check computes hold visible actions only:
\* tau is an action of no computed trace, and a term and the same term behind
\* a silent step are found trace equivalent.
C21_TracesAreVisible ==
    (verdict.kind = "TRACE" /\ Decided) =>
        /\ \A trace \in computeTraces(Arg1) \cup computeTraces(Arg2) :
              "tau" \notin TraceActions(trace)
        /\ (Arg1 = PrefixTerm("tau", Arg2) => verdict.outcome = "true")

\* the trace a.a. ... .a of n actions
RECURSIVE Repeat(_, _)
Repeat(a, n) == IF n = 1 THEN a ELSE Repeat(a, n - 1) \o "." \o a

\* C22: the depth-bounded trace exploration of rec X. a.X ends and reports
\* exactly the traces a, a.a, ... up to the depth bound of 10 actions.
C22_RecursiveTraceFamily ==
    (verdict.kind = "TRACE" /\ Arg1 = RecXaX /\ Decided) =>
        computeTraces(Arg1) = {Repeat("a", n) : n \in 1..MAX_TRACE_DEPTH}

\* C23: checkStrongBisimulation comes to an end on every pair of terms with
\* its refinement loop at a fixed point: the call returns a verdict and one
\* more refinement pass over the partition it leaves reports no change.
C23_RefinementReachesFixedPoint ==
    op = "checkStrongBisimulation" =>
        /\ Decided
        /\ ~refinePartition(partition).changed

\* C29: in any sequence of checkStrongBisimulation calls on one checker the
\* verdict of a call is the verdict a fresh checker gives on the same two
\* terms: the blocks retained from earlier calls change no later verdict.
C29_VerdictIndependentOfEarlierCalls ==
    [][op' = "checkStrongBisimulation" =>
         verdict'.outcome =
            checkStrongBisimulation(<<>>, verdict'.args[1],
                                    verdict'.args[2]).outcome]_vars

\* C30: the strong-bisimulation verdict depends on the behaviour after the
\* first step: a.b.STOP and a.c.STOP are reported not strongly bisimilar.
C30_LaterBehaviourDecides ==
    (/\ op = "checkStrongBisimulation"
     /\ Arg1 = PrefixTerm("a", PrefixTerm("b", StopTerm))
     /\ Arg2 = PrefixTerm("a", PrefixTerm("c", StopTerm)))
        => verdict.outcome = "false"

\* the EquivalenceChecker on its own: it keeps no state between calls
NextEquivalenceChecker == CheckEquivalence

SpecEquivalenceChecker == InitEq /\ [][NextEquivalenceChecker]_vars

\* C27: checkEquivalence called with a kind that is not one of the supported
\* kinds is rejected with the error "Unsupported equivalence type" whatever
\* the two terms are, also when exploring them would fail; it gives no verdict.
C27_UnsupportedKindRejected ==
    (Called /\ verdict.kind \notin EquivalenceTypes
            /\ verdict.kind \in DOMAIN EquivalenceVerdicts)
        => verdict.outcome = "Error: Unsupported equivalence type"

\* an unsupported kind asked of a term whose derive() cannot return
C27_Witness ==
    /\ verdict.kind = "OTHER"
    /\ Arg1 = RecXRecX
    /\ verdict.outcome = "Error: Unsupported equivalence type"

(***************************************************************************)
(* The term classes on their own: equals, substitute and derive called on  *)
(* a receiver t1 with the argument t2.  term holds the term substitute     *)
(* returned, result what derive returned                                   *)
(***************************************************************************)

\* equals(other) of every term class
RECURSIVE equals(_, _)
equals(T, other) ==
    CASE T.type = "Stop" -> other.type = "Stop"
      [] T.type = "Mock" -> other.type = "Mock" /\ T.id = other.id
      [] T.type = "Prefix" ->
            /\ other.type = "Prefix"
            /\ T.action = other.action
            /\ equals(T.continuation, other.continuation)
      [] T.type = "Choice" ->
            /\ other.type = "Choice"
            /\ equals(T.left, other.left)
            /\ equals(T.right, other.right)
      [] T.type = "Parallel" ->
            /\ other.type = "Parallel"
            /\ equals(T.left, other.left)
            /\ equals(T.right, other.right)
      [] T.type = "Recursive" ->
            /\ other.type = "Recursive"
            /\ T.variable = other.variable
            /\ equals(T.definition, other.definition)

TermActions == {"a", "b", "a.b"}
TermVariables == {"X", "Y"}
Leaves == {StopTerm} \cup {MockProcessTerm(v) : v \in TermVariables}
Prefixes == {PrefixTerm(a, P) : a \in TermActions, P \in Leaves}
Guarded == {PrefixTerm("a", StopTerm), PrefixTerm("a", MockProcessTerm("X"))}
Recursions ==
    {RecursiveTerm(v, D) : v \in TermVariables, D \in Prefixes}
        \cup {RecursiveTerm(v, RecursiveTerm(w, D)) :
                v \in TermVariables, w \in TermVariables, D \in Guarded}
Branches ==
    {PrefixTerm("a", StopTerm), PrefixTerm("b", StopTerm),
     PrefixTerm("a", MockProcessTerm("X")), RecXaX, RecXRecX}
Terms ==
    Leaves \cup Prefixes
        \cup {PrefixTerm("a", P) : P \in Prefixes}
        \cup Recursions
        \cup {ChoiceTerm(L, R) : L \in Branches, R \in Branches}

InitTerm ==
    /\ op = "new"
    /\ SOSIdle
    /\ LTSIdle
    /\ t1 \in Terms
    /\ t2 \in Terms
    /\ verdict = NoCall
    /\ partition = <<>>
    /\ termCache = <<>>

TermCall(kind, args, outcome) ==
    /\ op' = kind
    /\ verdict' = [kind |-> kind, args |-> args, outcome |-> outcome]
    /\ UNCHANGED <<rules, model, ltsVars, t1, t2, partition, termCache>>

\* t1.equals(t2)
TermEquals ==
    /\ TermCall("equals", <<"o1", "o2">>, Returned(equals(t1, t2)))
    /\ UNCHANGED <<term, result>>

\* t1.substitute(variable, t2)
TermSubstitute ==
    \E variable \in TermVariables :
        /\ TermCall("substitute", <<variable>>, "returned")
        /\ term' = Substitute(t1, variable, t2)
        /\ UNCHANGED result

\* t1.derive()
TermDerive ==
    /\ TermCall("derive", <<>>,
                IF Derive(t1).overflow THEN "RangeError" ELSE "returned")
    /\ result' = Derive(t1)
    /\ UNCHANGED term

NextTerm == TermEquals \/ TermSubstitute \/ TermDerive

SpecTerm == InitTerm /\ [][NextTerm]_vars

\* C24: the canonical text is a sound key for state identity: two terms have
\* the same toString exactly when equals finds them structurally equal.
C24_CanonicalTextIsSoundKey ==
    op = "equals" =>
        ((verdict.outcome = "true") <=> (toString(t1) = toString(t2)))

\* C25: substitute(v, R) on a RecursiveTerm returns R when v is the term's
\* own bound variable, and otherwise a RecursiveTerm with the same bound
\* variable whose definition is definition.substitute(v, R); the receiver is
\* left as it was.
C25_RecursiveSubstitute ==
    [][(op' = "substitute" /\ t1.type = "Recursive") =>
         /\ t1' = t1
         /\ IF verdict'.args[1] = t1.variable
            THEN term' = t2
            ELSE term' = RecursiveTerm(t1.variable,
                                       Substitute(t1.definition,
                                                  verdict'.args[1], t2))]_vars

\* a RecursiveTerm was asked to substitute its own bound variable and gave
\* back the replacement, a term other than itself
C25_Witness ==
    /\ op = "substitute"
    /\ t1.type = "Recursive"
    /\ verdict.args[1] = t1.variable
    /\ term = t2
    /\ t2 # t1

\* C26: when derive() of a ChoiceTerm returns, it holds one transition for
\* every transition of either branch: its size is the sum of the sizes of the
\* branches' derive(), and a choice between two identical prefixes a.P
\* derives two transitions.
C26_ChoiceKeepsEveryTransition ==
    (op = "derive" /\ t1.type = "Choice" /\ ~result.overflow) =>
        /\ Len(result.ts)
              = Len(Derive(t1.left).ts) + Len(Derive(t1.right).ts)
        /\ (t1.left = t1.right /\ t1.left.type = "Prefix")
              => Len(result.ts) = 2

\* derive() was called on a choice between two identical prefixes
C26_Witness ==
    /\ op = "derive"
    /\ t1.type = "Choice"
    /\ t1.left.type = "Prefix"
    /\ t1.left = t1.right
    /\ Len(result.ts) = 2

\* C28: derive() comes to an end on every finite term, a RecursiveTerm whose
\* definition is a RecursiveTerm binding the same variable included:
\* unfolding a RecursiveTerm never gives back the term being unfolded.
C28_DeriveTerminates ==
    op = "derive" =>
        /\ ~result.overflow
        /\ t1.type = "Recursive" => Unfold(t1) # t1
====
